---- MODULE Spec2Model ----
(***************************************************************************)
(* EventFlow client data-access layer: the Local Store (localApi.ts, one   *)
(* JSON blob per collection in localStorage) and the dispatcher            *)
(* (queryClient.ts: apiRequest and the list query function getQueryFn)     *)
(* that tries the remote endpoint first and falls back to the Local Store. *)
(***************************************************************************)
EXTENDS Integers, Sequences, FiniteSets, TLC

\* store:   localStorage, one blob per collection key
\* nextId:  how many identifiers nanoid() has handed out
\* section: the collection whose dashboard section (or, for users, the
\*          onboarding form) issues the calls of this behaviour
\* prev:    localStorage as it was before the last call
\* last:    the last call: its arguments, the remote outcome, what the
\*          caller got back and the keys it wrote
\* inflight: the apiRequest calls made at the same time, each with where it
\*          stands (only the specification of overlapping calls uses it)
\* view:     what a dashboard component has computed for display: the
\*          calendar of the timeline section while and after it is built,
\*          the figures of the budget section
VARIABLES store, nextId, section, prev, last, inflight, view

vars == <<store, nextId, section, prev, last, inflight, view>>

(***************************************************************************)
(* Bounds                                                                  *)
(***************************************************************************)
\* number of identifiers nanoid() hands out in one behaviour
MaxIds == 2

\* number of apiRequest calls that overlap in one behaviour
MaxCalls == 2

\* number of iterations of the calendar loop followed in one behaviour
MaxDays == 43

(***************************************************************************)
(* Values and records                                                      *)
(***************************************************************************)
\* a key that an object does not have
Absent == "<absent>"

\* `new Date()` as an in-memory object, and the string JSON.stringify makes of it
DateNow == "Date(now)"
DateNowISO == "now-iso"

Fields == {"id", "userId", "name", "amount", "createdAt", "date"}

CollectionName == {"users", "expenses", "vendors", "guests", "tasks", "inspirations"}

\* `${LS_KEY_PREFIX}:${name}`
getKey(name) == "eventflow-localapi:" \o name

\* the key of the session's user (storage.ts)
USER_STORAGE_KEY == "wedding-planner-user"

LSKeys == {getKey(c) : c \in CollectionName} \cup {USER_STORAGE_KEY}

EmptyObject == [f \in Fields |-> Absent]

\* JSON.stringify followed by JSON.parse of one object: a Date becomes its
\* ISO string, every other modelled value is a string and survives
JsonValue(v) == IF v = DateNow THEN DateNowISO ELSE v

JsonObject(o) == [f \in Fields |-> JsonValue(o[f])]

JsonArray(items) == [i \in 1..Len(items) |-> JsonObject(items[i])]

\* { ...a, ...b }: keys of b win, keys only in a are kept
Spread(a, b) == [f \in Fields |-> IF b[f] # Absent THEN b[f] ELSE a[f]]

\* nanoid(): the n-th identifier handed out
nanoid(n) == ToString(n)

(***************************************************************************)
(* localStorage and the collection blobs                                   *)
(***************************************************************************)
MissingBlob == [tag |-> "missing", items |-> <<>>]

ArrayBlob(items) == [tag |-> "array", items |-> items]

\* an item whose text JSON.parse rejects
UnparseableBlob == [tag |-> "unparseable", items |-> <<>>]

\* an item whose text JSON.parse accepts and that is no array ({}, null, 5)
NotArrayBlob == [tag |-> "notArray", items |-> <<>>]

\* readCollection: a missing item and one that fails to parse read as the
\* empty array; the records of an array are returned; any other parsed value
\* is returned as it is (see isArray)
readCollection(ls, name) ==
    IF ls[getKey(name)].tag = "array" THEN ls[getKey(name)].items ELSE <<>>

\* whether what readCollection returns has push, filter, findIndex and find
isArray(ls, name) == ls[getKey(name)].tag # "notArray"

writeCollectionMutClearsOtherKeys(ls, name, items) ==
    [k \in DOMAIN ls |-> IF k = getKey(name) THEN ArrayBlob(JsonArray(items))
                         ELSE MissingBlob]

\* writeCollection: the whole collection is serialized under its key
writeCollection(ls, name, items) ==
    [ls EXCEPT ![getKey(name)] = ArrayBlob(JsonArray(items))]

\* Array.prototype.findIndex on the id, 1-based; 0 stands for -1
findIndexById(items, id) ==
    IF \E i \in 1..Len(items) : items[i]["id"] = id
    THEN CHOOSE i \in 1..Len(items) :
            /\ items[i]["id"] = id
            /\ \A j \in 1..(i - 1) : items[j]["id"] # id
    ELSE 0

FilterOutIdMutKeepsTheId(items, id) ==
    LET keep(e) == e["id"] = id IN SelectSeq(items, keep)

\* items.filter(e => e.id !== id)
FilterOutId(items, id) ==
    LET keep(e) == e["id"] # id IN SelectSeq(items, keep)

FilterByOwnerMutEveryOwner(items, userId) == items

\* items.filter(e => e.userId === userId)
FilterByOwner(items, userId) ==
    LET mine(e) == e["userId"] = userId IN SelectSeq(items, mine)

(***************************************************************************)
(* localApi: every operation returns what it did: whether it threw, the    *)
(* resulting localStorage, the value returned and the keys it wrote        *)
(***************************************************************************)
Returned(ls, val, writes) ==
    [thrown |-> FALSE, name |-> "", msg |-> "", ls |-> ls, val |-> val,
     writes |-> writes, ids |-> 0]

Thrown(ls, msg) ==
    [thrown |-> TRUE, name |-> "Error", msg |-> msg, ls |-> ls, val |-> EmptyObject,
     writes |-> <<>>, ids |-> 0]

\* a method called on a value that does not have it
NotAFunction(ls, method) ==
    [Thrown(ls, "items." \o method \o " is not a function") EXCEPT !.name = "TypeError"]

pushAndWriteMutNoWrite(ls, name, record) ==
    [Returned(ls, record, <<>>) EXCEPT !.ids = 1]

\* items.push(record); writeCollection(name, items); return record
\* (the record carries the one identifier its caller drew from nanoid)
pushAndWrite(ls, name, record) ==
    IF ~isArray(ls, name) THEN NotAFunction(ls, "push")
    ELSE [Returned(writeCollection(ls, name, Append(readCollection(ls, name), record)),
                   record, <<getKey(name)>>) EXCEPT !.ids = 1]

mergeAndWriteMutUpsert(ls, name, id, data, notFound) ==
    LET items == readCollection(ls, name)
        idx == findIndexById(items, id)
        merged == Spread(items[idx], data)
    IN IF idx = 0
       THEN Returned(writeCollection(ls, name, Append(items, data)), data,
                     <<getKey(name)>>)
       ELSE Returned(writeCollection(ls, name, [items EXCEPT ![idx] = merged]),
                     merged, <<getKey(name)>>)

\* idx = findIndex; if (idx === -1) throw; items[idx] = {...items[idx], ...data};
\* writeCollection; return items[idx]
mergeAndWrite(ls, name, id, data, notFound) ==
    LET items == readCollection(ls, name)
        idx == findIndexById(items, id)
        merged == Spread(items[idx], data)
    IN IF ~isArray(ls, name) THEN NotAFunction(ls, "findIndex")
       ELSE IF idx = 0 THEN Thrown(ls, notFound)
       ELSE Returned(writeCollection(ls, name, [items EXCEPT ![idx] = merged]),
                     merged, <<getKey(name)>>)

filterAndWriteMutThrowsWhenAbsent(ls, name, id) ==
    IF findIndexById(readCollection(ls, name), id) = 0 THEN Thrown(ls, "not found")
    ELSE Returned(writeCollection(ls, name, FilterOutId(readCollection(ls, name), id)),
                  EmptyObject, <<getKey(name)>>)

\* writeCollection(name, items.filter(e => e.id !== id))
filterAndWrite(ls, name, id) ==
    IF ~isArray(ls, name) THEN NotAFunction(ls, "filter")
    ELSE Returned(writeCollection(ls, name, FilterOutId(readCollection(ls, name), id)),
                  EmptyObject, <<getKey(name)>>)

listByOwnerMutNothing(ls, name, userId) == Returned(ls, <<>>, <<>>)

\* readCollection(name).filter(e => e.userId === userId)
listByOwner(ls, name, userId) ==
    IF ~isArray(ls, name) THEN NotAFunction(ls, "filter")
    ELSE Returned(ls, FilterByOwner(readCollection(ls, name), userId), <<>>)

createUser(ls, n, data) ==
    pushAndWrite(ls, "users",
                 [data EXCEPT !["id"] = nanoid(n), !["createdAt"] = DateNow])

updateUser(ls, id, data) == mergeAndWrite(ls, "users", id, data, "User not found")

getUser(ls, id) ==
    LET users == readCollection(ls, "users")
        idx == findIndexById(users, id)
    IN IF ~isArray(ls, "users") THEN NotAFunction(ls, "find")
       ELSE IF idx = 0 THEN Thrown(ls, "User not found")
       ELSE Returned(ls, users[idx], <<>>)

listExpenses(ls, userId) == listByOwner(ls, "expenses", userId)

createExpenseMutKeepsSuppliedId(ls, n, data) ==
    pushAndWrite(ls, "expenses",
                 [data EXCEPT !["id"] = IF data["id"] # Absent THEN data["id"]
                                        ELSE nanoid(n),
                              !["date"] = DateNow])

createExpense(ls, n, data) ==
    pushAndWrite(ls, "expenses",
                 [data EXCEPT !["id"] = nanoid(n), !["date"] = DateNow])

updateExpense(ls, id, data) ==
    mergeAndWrite(ls, "expenses", id, data, "Expense not found")

deleteExpense(ls, id) == filterAndWrite(ls, "expenses", id)

listVendors(ls, userId) == listByOwner(ls, "vendors", userId)

createVendor(ls, n, data) ==
    pushAndWrite(ls, "vendors", [data EXCEPT !["id"] = nanoid(n)])

updateVendor(ls, id, data) ==
    mergeAndWrite(ls, "vendors", id, data, "Vendor not found")

deleteVendor(ls, id) == filterAndWrite(ls, "vendors", id)

listGuests(ls, userId) == listByOwner(ls, "guests", userId)

createGuest(ls, n, data) ==
    pushAndWrite(ls, "guests", [data EXCEPT !["id"] = nanoid(n)])

updateGuestMutMovesToEnd(ls, id, data) ==
    LET r == mergeAndWrite(ls, "guests", id, data, "Guest not found")
    IN IF r.thrown THEN r
       ELSE [r EXCEPT !.ls = writeCollection(ls, "guests",
                                Append(FilterOutId(readCollection(ls, "guests"), id),
                                       r.val))]

updateGuest(ls, id, data) ==
    mergeAndWrite(ls, "guests", id, data, "Guest not found")

deleteGuest(ls, id) == filterAndWrite(ls, "guests", id)

listTasks(ls, userId) == listByOwner(ls, "tasks", userId)

createTask(ls, n, data) ==
    pushAndWrite(ls, "tasks", [data EXCEPT !["id"] = nanoid(n)])

updateTask(ls, id, data) ==
    mergeAndWrite(ls, "tasks", id, data, "Task not found")

deleteTask(ls, id) == filterAndWrite(ls, "tasks", id)

listInspirations(ls, userId) == listByOwner(ls, "inspirations", userId)

createInspiration(ls, n, data) ==
    pushAndWrite(ls, "inspirations", [data EXCEPT !["id"] = nanoid(n)])

deleteInspiration(ls, id) == filterAndWrite(ls, "inspirations", id)

(***************************************************************************)
(* Remote outcomes: fetch either rejects or resolves to a Response         *)
(***************************************************************************)
JsonCT == "application/json"
HtmlCT == "text/html"

HttpResponse(status, ctype, body) ==
    [net |-> "http", status |-> status, ctype |-> ctype, body |-> body]

FetchRejected ==
    [net |-> "reject", status |-> 0, ctype |-> "", body |-> [fmt |-> "text", val |-> ""]]

JsonBody(v) == [fmt |-> "json", val |-> v]
TextBody(t) == [fmt |-> "text", val |-> t]

okMutClientErrorsToo(res) == res.status >= 200 /\ res.status <= 499

\* Response.ok
ok(res) == res.status >= 200 /\ res.status <= 299

statusText(res) ==
    CASE res.status = 401 -> "Unauthorized"
      [] res.status = 404 -> "Not Found"
      [] res.status = 400 -> "Bad Request"
      [] res.status = 503 -> "Service Unavailable"
      [] OTHER -> "OK"

\* res.text(): the body as sent
text(res) == IF res.body.fmt = "text" THEN res.body.val ELSE "json-text"

RemoteErrorMutNoStatusText(res) ==
    [name |-> "Error", status |-> res.status, text |-> text(res)]

\* the errors a call can raise
RemoteError(res) ==
    [name |-> "Error", status |-> res.status,
     text |-> IF text(res) # "" THEN text(res) ELSE statusText(res)]

LocalError(msg) == [name |-> "Error", status |-> 0, text |-> msg]

NetworkError == [name |-> "TypeError", status |-> 0, text |-> "Failed to fetch"]

JsonSyntaxError == [name |-> "SyntaxError", status |-> 0, text |-> "Unexpected token <"]

\* isJsonResponse / shouldFallback of localApi.ts
isJsonResponse(res) == res.ctype = JsonCT

shouldFallback(res) == IF ~ok(res) THEN TRUE ELSE ~isJsonResponse(res)

LocalResponseMutHtml(v) == HttpResponse(200, HtmlCT, JsonBody(v))

\* new Response(JSON.stringify(v), {status: 200, headers: {"Content-Type": "application/json"}})
LocalResponse(v) == HttpResponse(200, JsonCT, JsonBody(v))

OkTrue == [k \in {"ok"} |-> "true"]

(***************************************************************************)
(* apiRequest                                                              *)
(***************************************************************************)
\* path.startsWith("/api/<name>/")
startsWith(path, name) ==
    Len(path) >= 3 /\ path[1] = "api" /\ path[2] = name

\* path === "/api/<name>"
isRoot(path, name) == path = <<"api", name>>

\* path.split("/").pop()
pop(path) == path[Len(path)]

NoRoute == [matched |-> FALSE, del |-> FALSE, r |-> Thrown(<<>>, "")]

Routed(r) == [matched |-> TRUE, del |-> FALSE, r |-> r]

RoutedDelete(r) == [matched |-> TRUE, del |-> TRUE, r |-> r]

\* the if-chain inside the try block: the first branch whose test holds runs
\* its localApi operation
fallbackRoute(method, path, data, ls, n) ==
    CASE method = "POST" /\ isRoot(path, "users") -> Routed(createUser(ls, n, data))
      [] method = "PUT" /\ startsWith(path, "users") -> Routed(updateUser(ls, pop(path), data))
      [] method = "POST" /\ isRoot(path, "expenses") -> Routed(createExpense(ls, n, data))
      [] method = "PUT" /\ startsWith(path, "expenses") -> Routed(updateExpense(ls, pop(path), data))
      [] method = "DELETE" /\ startsWith(path, "expenses") -> RoutedDelete(deleteExpense(ls, pop(path)))
      [] method = "POST" /\ isRoot(path, "vendors") -> Routed(createVendor(ls, n, data))
      [] method = "PUT" /\ startsWith(path, "vendors") -> Routed(updateVendor(ls, pop(path), data))
      [] method = "DELETE" /\ startsWith(path, "vendors") -> RoutedDelete(deleteVendor(ls, pop(path)))
      [] method = "POST" /\ isRoot(path, "guests") -> Routed(createGuest(ls, n, data))
      [] method = "PUT" /\ startsWith(path, "guests") -> Routed(updateGuest(ls, pop(path), data))
      [] method = "DELETE" /\ startsWith(path, "guests") -> RoutedDelete(deleteGuest(ls, pop(path)))
      [] method = "POST" /\ isRoot(path, "tasks") -> Routed(createTask(ls, n, data))
      [] method = "PUT" /\ startsWith(path, "tasks") -> Routed(updateTask(ls, pop(path), data))
      [] method = "DELETE" /\ startsWith(path, "tasks") -> RoutedDelete(deleteTask(ls, pop(path)))
      [] method = "POST" /\ isRoot(path, "inspirations") -> Routed(createInspiration(ls, n, data))
      [] method = "DELETE" /\ startsWith(path, "inspirations") -> RoutedDelete(deleteInspiration(ls, pop(path)))
      [] OTHER -> NoRoute

\* what a call hands back to its caller, and what it did to localStorage
Resolve(kind, val, ls, writes, ids) ==
    [kind |-> kind, val |-> val, err |-> LocalError(""), ls |-> ls,
     writes |-> writes, ids |-> ids]

Reject(err, ls) ==
    [kind |-> "error", val |-> EmptyObject, err |-> err, ls |-> ls,
     writes |-> <<>>, ids |-> 0]

\* throwIfResNotOk(res): whether it throws `${res.status}: ${text}`
throwIfResNotOk(res) == ~ok(res)

apiRequestAcceptsMutInverted(res) == ~ok(res)

\* whether apiRequest hands the remote response straight back
apiRequestAccepts(res) == ok(res)

apiRequest(method, path, data, res, ls, n) ==
    IF res.net = "reject" THEN Reject(NetworkError, ls)
    ELSE IF apiRequestAccepts(res) THEN Resolve("response", res, ls, <<>>, 0)
    ELSE LET fb == fallbackRoute(method, path, data, ls, n)
         IN IF fb.matched /\ ~fb.r.thrown
            THEN Resolve("response",
                         LocalResponse(IF fb.del THEN OkTrue ELSE JsonObject(fb.r.val)),
                         fb.r.ls, fb.r.writes, fb.r.ids)
            ELSE IF throwIfResNotOk(res) THEN Reject(RemoteError(res), ls)
            ELSE Resolve("response", res, ls, <<>>, 0)

(***************************************************************************)
(* getQueryFn                                                              *)
(***************************************************************************)
\* path.split("/").filter(Boolean)
filterBoolean(path) == LET nonEmpty(x) == x # "" IN SelectSeq(path, nonEmpty)

\* res.json()
json(res, ls) ==
    IF res.body.fmt = "json" THEN Resolve("value", res.body.val, ls, <<>>, 0)
    ELSE Reject(JsonSyntaxError, ls)

ListRouted(r) == [matched |-> TRUE, r |-> r]

NoListRoute == [matched |-> FALSE, r |-> Thrown(<<>>, "")]

\* the "Fallback for lists" try block
listFallback(endpoint, ls) ==
    LET parts == filterBoolean(endpoint)
    IN IF Len(parts) >= 4 /\ parts[1] = "api" /\ parts[2] = "users"
       THEN CASE parts[4] = "expenses" -> ListRouted(listExpenses(ls, parts[3]))
              [] parts[4] = "vendors" -> ListRouted(listVendors(ls, parts[3]))
              [] parts[4] = "guests" -> ListRouted(listGuests(ls, parts[3]))
              [] parts[4] = "tasks" -> ListRouted(listTasks(ls, parts[3]))
              [] parts[4] = "inspirations" -> ListRouted(listInspirations(ls, parts[3]))
              [] OTHER -> NoListRoute
       ELSE NoListRoute

\* whether the query function parses and returns the remote body
queryAccepts(res) == ok(res)

getQueryFnMutFallbackFirst(on401, endpoint, res, ls) ==
    IF res.net = "reject" THEN Reject(NetworkError, ls)
    ELSE IF queryAccepts(res) THEN json(res, ls)
    ELSE LET fb == listFallback(endpoint, ls)
         IN IF fb.matched /\ ~fb.r.thrown
            THEN Resolve("value", fb.r.val, fb.r.ls, fb.r.writes, fb.r.ids)
            ELSE IF on401 = "returnNull" /\ res.status = 401
                 THEN Resolve("null", EmptyObject, ls, <<>>, 0)
            ELSE IF throwIfResNotOk(res) THEN Reject(RemoteError(res), ls)
            ELSE json(res, ls)

getQueryFn(on401, endpoint, res, ls) ==
    IF res.net = "reject" THEN Reject(NetworkError, ls)
    ELSE IF on401 = "returnNull" /\ res.status = 401
         THEN Resolve("null", EmptyObject, ls, <<>>, 0)
    ELSE IF queryAccepts(res) THEN json(res, ls)
    ELSE LET fb == listFallback(endpoint, ls)
         IN IF fb.matched /\ ~fb.r.thrown
            THEN Resolve("value", fb.r.val, fb.r.ls, fb.r.writes, fb.r.ids)
            ELSE IF throwIfResNotOk(res) THEN Reject(RemoteError(res), ls)
            ELSE json(res, ls)

(***************************************************************************)
(* The calls the client makes and the answers the remote can give          *)
(***************************************************************************)
UserIds == {"u1", "u2"}

\* an identifier nanoid never hands out: a record that exists only remotely
ForeignId == "r9"

PathIds == {nanoid(i) : i \in 1..MaxIds} \cup {ForeignId}

\* a resource name the client has no route for
Unmapped == "widgets"

\* the resource names a section's calls carry: its own collection, and the
\* unmapped one
PathNames(sec) == {sec, Unmapped}

RootPaths(sec) == {<<"api", c>> : c \in PathNames(sec)}

ItemPaths(sec) == {<<"api", c, id>> : c \in PathNames(sec), id \in PathIds}

ListPaths(sec) == {<<"api", "users", u, c>> : u \in UserIds, c \in PathNames(sec)}

Object(userId, name) ==
    [EmptyObject EXCEPT !["userId"] = userId, !["name"] = name]

\* the user whose dashboard is open: the owner of what the sections insert
CurrentUser == "u1"

\* insert payloads: a record without id; a profile has no owner, every other
\* record is owned by the current user
InsertData(sec) ==
    IF sec = "users" THEN {Object(Absent, "a")} ELSE {Object(CurrentUser, "a")}

\* partial updates: one field, or an id and an owner of their own
PartialData ==
    {Object(Absent, "b"), [Object("u2", Absent) EXCEPT !["id"] = ForeignId]}

RemoteRecord == [Object("u1", "remote") EXCEPT !["id"] = ForeignId]

Responses ==
    {HttpResponse(200, JsonCT, JsonBody(<<RemoteRecord>>)),
     HttpResponse(200, HtmlCT, TextBody("<html>")),
     HttpResponse(503, HtmlCT, TextBody("down")),
     HttpResponse(401, HtmlCT, TextBody(""))}

FetchOutcomes == Responses \cup {FetchRejected}

(***************************************************************************)
(* State machine                                                           *)
(***************************************************************************)
\* nothing computed for display yet
NoView == [kind |-> "none"]

NoCall ==
    [op |-> "none", method |-> "", path |-> <<>>, data |-> EmptyObject,
     on401 |-> "", res |-> FetchRejected, kind |-> "none", val |-> EmptyObject,
     err |-> LocalError(""), writes |-> <<>>]

Call(op, method, path, data, on401, res, r) ==
    [op |-> op, method |-> method, path |-> path, data |-> data,
     on401 |-> on401, res |-> res, kind |-> r.kind, val |-> r.val,
     err |-> r.err, writes |-> r.writes]

Init ==
    /\ store = [k \in LSKeys |-> MissingBlob]
    /\ nextId = 0
    /\ section \in CollectionName
    /\ prev = store
    /\ last = NoCall
    /\ inflight = <<>>
    /\ view = NoView

Commit(op, method, path, data, on401, res, r) ==
    /\ nextId + r.ids <= MaxIds
    /\ store' = r.ls
    /\ nextId' = nextId + r.ids
    /\ section' = section
    /\ prev' = store
    /\ last' = Call(op, method, path, data, on401, res, r)
    /\ inflight' = inflight
    /\ view' = view

\* apiRequest("POST", path, data)
ApiPost ==
    \E path \in RootPaths(section), data \in InsertData(section), res \in FetchOutcomes :
        Commit("apiRequest", "POST", path, data, "", res,
               apiRequest("POST", path, data, res, store, nextId + 1))

\* apiRequest("PUT", path, data)
ApiPut ==
    \E path \in ItemPaths(section), data \in PartialData, res \in FetchOutcomes :
        Commit("apiRequest", "PUT", path, data, "", res,
               apiRequest("PUT", path, data, res, store, nextId + 1))

\* apiRequest("DELETE", path)
ApiDelete ==
    \E path \in ItemPaths(section), res \in FetchOutcomes :
        Commit("apiRequest", "DELETE", path, EmptyObject, "", res,
               apiRequest("DELETE", path, EmptyObject, res, store, nextId + 1))

\* useQuery({queryKey}) running the query function
ListQuery ==
    \E on401 \in {"throw", "returnNull"}, path \in ListPaths(section), res \in FetchOutcomes :
        Commit("query", "GET", path, EmptyObject, on401, res,
               getQueryFn(on401, path, res, store))

Next == ApiPost \/ ApiPut \/ ApiDelete \/ ListQuery

Spec == Init /\ [][Next]_vars

(***************************************************************************)
(* The Local Store called directly: localApi.<operation>(...)              *)
(***************************************************************************)
\* the create operation of a collection
createIn(name, ls, n, data) ==
    CASE name = "users" -> createUser(ls, n, data)
      [] name = "expenses" -> createExpense(ls, n, data)
      [] name = "vendors" -> createVendor(ls, n, data)
      [] name = "guests" -> createGuest(ls, n, data)
      [] name = "tasks" -> createTask(ls, n, data)
      [] name = "inspirations" -> createInspiration(ls, n, data)

\* the update operation of a collection (inspirations has none)
updateIn(name, ls, id, data) ==
    CASE name = "users" -> updateUser(ls, id, data)
      [] name = "expenses" -> updateExpense(ls, id, data)
      [] name = "vendors" -> updateVendor(ls, id, data)
      [] name = "guests" -> updateGuest(ls, id, data)
      [] name = "tasks" -> updateTask(ls, id, data)

\* the delete operation of a collection (users has none)
deleteIn(name, ls, id) ==
    CASE name = "expenses" -> deleteExpense(ls, id)
      [] name = "vendors" -> deleteVendor(ls, id)
      [] name = "guests" -> deleteGuest(ls, id)
      [] name = "tasks" -> deleteTask(ls, id)
      [] name = "inspirations" -> deleteInspiration(ls, id)

\* the list operation of a collection (users has none)
listIn(name, ls, userId) ==
    CASE name = "expenses" -> listExpenses(ls, userId)
      [] name = "vendors" -> listVendors(ls, userId)
      [] name = "guests" -> listGuests(ls, userId)
      [] name = "tasks" -> listTasks(ls, userId)
      [] name = "inspirations" -> listInspirations(ls, userId)

\* the promise a localApi operation hands to its caller
settled(r) ==
    IF r.thrown THEN Reject([LocalError(r.msg) EXCEPT !.name = r.name], r.ls)
    ELSE Resolve("value", r.val, r.ls, r.writes, r.ids)

\* insert payloads of the direct calls: either owner, with or without an id
\* of the caller's own
StoreInsertData(sec) ==
    LET owners == IF sec = "users" THEN {Absent} ELSE UserIds
    IN {Object(u, "a") : u \in owners}
       \cup {[Object(CurrentUser, "a") EXCEPT !["id"] = ForeignId]}

\* partial updates of the direct calls: two fields, or an id and an owner
TwoFieldUpdate == [Object(Absent, "b") EXCEPT !["amount"] = "5"]

StorePartialData ==
    {TwoFieldUpdate,
     [Object("u2", Absent) EXCEPT !["id"] = ForeignId]}

CommitLocal(method, path, data, r) ==
    Commit("localApi", method, path, data, "", FetchRejected, settled(r))

\* localApi.create<X>(data)
LocalCreate ==
    \E data \in StoreInsertData(section) :
        CommitLocal("create", <<section>>, data,
                    createIn(section, store, nextId + 1, data))

\* localApi.update<X>(id, data)
LocalUpdate ==
    /\ section # "inspirations"
    /\ \E id \in PathIds, data \in StorePartialData :
            CommitLocal("update", <<section, id>>, data,
                        updateIn(section, store, id, data))

\* localApi.delete<X>(id)
LocalDelete ==
    /\ section # "users"
    /\ \E id \in PathIds :
            CommitLocal("delete", <<section, id>>, EmptyObject,
                        deleteIn(section, store, id))

\* localApi.list<X>(userId)
LocalList ==
    /\ section # "users"
    /\ \E u \in UserIds :
            CommitLocal("list", <<section, u>>, EmptyObject,
                        listIn(section, store, u))

\* localApi.getUser(id)
LocalGetUser ==
    /\ section = "users"
    /\ \E id \in PathIds :
            CommitLocal("get", <<section, id>>, EmptyObject, getUser(store, id))

NextStore == LocalCreate \/ LocalUpdate \/ LocalDelete \/ LocalList \/ LocalGetUser

SpecStore == Init /\ [][NextStore]_vars

(***************************************************************************)
(* The Local Store called on a collection item it did not write            *)
(***************************************************************************)
\* localStorage holding, under the key of the section's collection, no item,
\* an item that does not parse, or an item that parses to no array
InitBlob ==
    /\ section \in CollectionName
    /\ \E blob \in {MissingBlob, UnparseableBlob, NotArrayBlob} :
           store = [k \in LSKeys |-> IF k = getKey(section) THEN blob
                                     ELSE MissingBlob]
    /\ nextId = 0
    /\ prev = store
    /\ last = NoCall
    /\ inflight = <<>>
    /\ view = NoView

SpecBlob == InitBlob /\ [][NextStore]_vars

(***************************************************************************)
(* The remote server (routes.ts) answering the calls of the client         *)
(***************************************************************************)
\* the routes registerRoutes registers
hasServerRoute(method, path) ==
    /\ Len(path) >= 2
    /\ path[1] = "api"
    /\ \/ method = "POST" /\ Len(path) = 2 /\ path[2] \in CollectionName
       \/ method = "PUT" /\ Len(path) = 3
                         /\ path[2] \in {"users", "vendors", "guests", "tasks"}
       \/ method = "DELETE" /\ Len(path) = 3 /\ path[2] \in CollectionName \ {"users"}
       \/ method = "GET" /\ Len(path) = 3 /\ path[2] = "users"
       \/ method = "GET" /\ Len(path) = 4 /\ path[2] = "users"
                         /\ path[4] \in CollectionName \ {"users"}

\* insert<X>Schema.parse(req.body): the columns that are notNull
insertSchemaAccepts(name, data) ==
    /\ data["name"] # Absent
    /\ (name # "users" => data["userId"] # Absent)
    /\ (name = "expenses" => data["amount"] # Absent)

\* res.status(s).json({ message })
MessageBody(message) == JsonBody([k \in {"message"} |-> message])

\* Express answering a request that no route matches
CannotRoute == HttpResponse(404, HtmlCT, TextBody("Cannot"))

\* the server is not reachable behind the host
Unavailable == HttpResponse(503, HtmlCT, TextBody("down"))

\* the answers a request can get: the ones of its route handler, whose
\* storage decides between found and not found, or the no-route answer, or
\* the answer of a host whose server is down
serverAnswers(method, path, data) ==
    {Unavailable}
    \cup (IF ~hasServerRoute(method, path) THEN {CannotRoute}
          ELSE CASE method = "POST" ->
                      IF insertSchemaAccepts(path[2], data)
                      THEN {HttpResponse(200, JsonCT,
                                         JsonBody([data EXCEPT !["id"] = ForeignId]))}
                      ELSE {HttpResponse(400, JsonCT, MessageBody("Invalid data"))}
                 [] method = "PUT" ->
                      {HttpResponse(200, JsonCT,
                                    JsonBody([data EXCEPT !["id"] = pop(path)])),
                       HttpResponse(404, JsonCT, MessageBody("not found"))}
                 [] method = "DELETE" ->
                      {HttpResponse(200, JsonCT, MessageBody("deleted")),
                       HttpResponse(404, JsonCT, MessageBody("not found"))}
                 [] OTHER -> {HttpResponse(200, JsonCT, JsonBody(<<RemoteRecord>>))})

\* the payloads of the section's add form: one the insert schema accepts and
\* one it rejects
ServerInsertData(sec) ==
    LET owner == IF sec = "users" THEN Absent ELSE CurrentUser
    IN {[Object(owner, "a") EXCEPT !["amount"] = "5"],
        [Object(owner, Absent) EXCEPT !["amount"] = "5"]}

ServedPost ==
    \E data \in ServerInsertData(section) :
        \E res \in serverAnswers("POST", <<"api", section>>, data) :
            Commit("apiRequest", "POST", <<"api", section>>, data, "", res,
                   apiRequest("POST", <<"api", section>>, data, res, store, nextId + 1))

ServedPut ==
    /\ section # "inspirations"
    /\ \E id \in PathIds, data \in PartialData :
           \E res \in serverAnswers("PUT", <<"api", section, id>>, data) :
               Commit("apiRequest", "PUT", <<"api", section, id>>, data, "", res,
                      apiRequest("PUT", <<"api", section, id>>, data, res, store,
                                 nextId + 1))

ServedDelete ==
    /\ section # "users"
    /\ \E id \in PathIds :
           \E res \in serverAnswers("DELETE", <<"api", section, id>>, EmptyObject) :
               Commit("apiRequest", "DELETE", <<"api", section, id>>, EmptyObject, "",
                      res,
                      apiRequest("DELETE", <<"api", section, id>>, EmptyObject, res,
                                 store, nextId + 1))

ServedList ==
    /\ section # "users"
    /\ \E u \in UserIds :
           \E res \in serverAnswers("GET", <<"api", "users", u, section>>, EmptyObject) :
               Commit("query", "GET", <<"api", "users", u, section>>, EmptyObject,
                      "throw", res,
                      getQueryFn("throw", <<"api", "users", u, section>>, res, store))

NextServer == ServedPost \/ ServedPut \/ ServedDelete \/ ServedList

SpecServer == Init /\ [][NextServer]_vars

(***************************************************************************)
(* The Local Store called in a browser that has been used before           *)
(***************************************************************************)
\* a record an earlier visit left in a collection: a profile, or a record
\* that profile owns
SeededRecord(name) ==
    JsonObject([Object(IF name = "users" THEN Absent ELSE ForeignId, "seed")
                    EXCEPT !["id"] = ForeignId,
                           !["createdAt"] = IF name = "users" THEN DateNow ELSE Absent,
                           !["date"] = IF name = "expenses" THEN DateNow ELSE Absent])

\* every collection holds a record and the session's user is the profile
InitSeeded ==
    /\ section \in CollectionName
    /\ store = [k \in LSKeys |->
                   IF k = USER_STORAGE_KEY
                   THEN [tag |-> "user", items |-> <<SeededRecord("users")>>]
                   ELSE ArrayBlob(<<SeededRecord(CHOOSE c \in CollectionName :
                                                    getKey(c) = k)>>)]
    /\ nextId = 0
    /\ prev = store
    /\ last = NoCall
    /\ inflight = <<>>
    /\ view = NoView

SpecSeeded == InitSeeded /\ [][NextStore]_vars

(***************************************************************************)
(* The session's user (storage.ts) and the onboarding form                 *)
(***************************************************************************)
\* storeUser(user)
storeUser(ls, user) ==
    [ls EXCEPT ![USER_STORAGE_KEY] = [tag |-> "user", items |-> <<JsonObject(user)>>]]

\* getStoredUser() !== null
hasStoredUser(ls) == ls[USER_STORAGE_KEY].tag = "user"

\* getStoredUser(), when it is not null
getStoredUser(ls) == ls[USER_STORAGE_KEY].items[1]

\* `local-${Math.random().toString(36).slice(2)}`
LocalSkipId == "local-1"

\* the profile handleSkip makes up
localUser ==
    [Object(Absent, "Guest") EXCEPT !["id"] = LocalSkipId, !["createdAt"] = DateNow]

handleSkipMutCreatesUser(ls, n) ==
    LET r == createUser(ls, n, localUser)
    IN Resolve("value", r.val, storeUser(r.ls, r.val),
               r.writes \o <<USER_STORAGE_KEY>>, r.ids)

\* handleSkip: storeUser(localUser); onComplete(localUser)
handleSkip(ls, n) ==
    Resolve("value", localUser, storeUser(ls, localUser), <<USER_STORAGE_KEY>>, 0)

\* createUserMutation: mutationFn, then onSuccess (storeUser) or onError
createUserMutation(method, path, data, res, ls, n) ==
    LET r == apiRequest(method, path, data, res, ls, n)
    IN IF r.kind # "response" THEN r
       ELSE IF r.val.body.fmt # "json" THEN Reject(JsonSyntaxError, r.ls)
       ELSE Resolve("value", r.val.body.val, storeUser(r.ls, r.val.body.val),
                    r.writes \o <<USER_STORAGE_KEY>>, r.ids)

\* the onboarding form is shown to a visitor without a stored user
InitOnboarding == Init /\ section = "users"

\* what the form submits: two profiles the insert schema accepts, and one
\* it rejects
OnboardingData ==
    ServerInsertData("users") \cup {[Object(Absent, "b") EXCEPT !["amount"] = "5"]}

\* the "Skip for now" button and the click on the backdrop
HandleSkip ==
    /\ ~hasStoredUser(store)
    /\ Commit("handleSkip", "", <<>>, EmptyObject, "", FetchRejected,
              handleSkip(store, nextId + 1))

\* the form submitted: POST /api/users for a new profile, PUT
\* /api/users/{id} when the stored profile is edited
OnSubmit ==
    \E data \in OnboardingData :
        LET method == IF hasStoredUser(store) THEN "PUT" ELSE "POST"
            path == IF hasStoredUser(store)
                    THEN <<"api", "users", getStoredUser(store)["id"]>>
                    ELSE <<"api", "users">>
        IN \E res \in serverAnswers(method, path, data) :
               Commit("onSubmit", method, path, data, "", res,
                      createUserMutation(method, path, data, res, store, nextId + 1))

NextOnboarding == HandleSkip \/ OnSubmit

SpecOnboarding == InitOnboarding /\ [][NextOnboarding]_vars

(***************************************************************************)
(* The timeline section: generateCalendar                                  *)
(***************************************************************************)
\* a Date: an Invalid Date (its time value is NaN), or the local midnight of
\* a day, counted from Sunday 29 December 2024 (day 0)
InvalidDate == [nan |-> TRUE, day |-> 0]

ValidDate(day) == [nan |-> FALSE, day |-> day]

\* the lengths of the months of 2025
MonthLength == <<31, 28, 31, 30, 31, 30, 31, 31, 30, 31, 30, 31>>

RECURSIVE DaysBefore(_)
\* the days of 2025 before the month with index month (0 = January)
DaysBefore(month) ==
    IF month = 0 THEN 0 ELSE DaysBefore(month - 1) + MonthLength[month]

\* an eventDate that does not parse as a date
DateText(chars) == [iso |-> FALSE, chars |-> chars, month |-> 0, date |-> 0]

\* the eventDate "2025-mm-dd" of the date input
IsoDate(month, date) == [iso |-> TRUE, chars |-> "2025", month |-> month, date |-> date]

\* the eventDate strings a profile holds: the form's default "", a text
\* that is no date, and the first, the 15th and the last day of each month
EventDates ==
    {DateText(""), DateText("tbd")}
    \cup {IsoDate(m, d) : m \in 1..12, d \in {1, 15}}
    \cup {IsoDate(m, MonthLength[m]) : m \in 1..12}

\* new Date(eventDate)
newDate(eventDate) ==
    IF eventDate.iso
    THEN ValidDate(3 + DaysBefore(eventDate.month - 1) + eventDate.date - 1)
    ELSE InvalidDate

\* getMonth(): the index of the month the day falls in; NaN (here -1) for an
\* Invalid Date
getMonth(d) ==
    IF d.nan THEN -1
    ELSE CHOOSE m \in 0..11 :
            /\ 3 + DaysBefore(m) <= d.day
            /\ d.day < 3 + DaysBefore(m) + MonthLength[m + 1]

\* new Date(year, month, 1)
firstDayOfMonth(month) ==
    IF month = -1 THEN InvalidDate ELSE ValidDate(3 + DaysBefore(month))

\* new Date(year, month + 1, 0)
lastDayOfMonth(month) ==
    IF month = -1 THEN InvalidDate
    ELSE ValidDate(3 + DaysBefore(month) + MonthLength[month + 1] - 1)

\* getDay(): 0 for Sunday; NaN (here -1) for an Invalid Date
getDay(d) == IF d.nan THEN -1 ELSE d.day % 7

\* d.setDate(d.getDate() + n)
addDays(d, n) == IF d.nan THEN InvalidDate ELSE ValidDate(d.day + n)

\* a <= b on Dates: false when either is an Invalid Date
dateLE(a, b) == ~a.nan /\ ~b.nan /\ a.day <= b.day

\* currentDate <= lastDay || currentDate.getDay() !== 0
whileCondition(currentDate, lastDay) ==
    dateLE(currentDate, lastDay) \/ getDay(currentDate) # 0

\* the dashboard shows the timeline of the stored profile
InitCalendar == Init /\ section = "users"

\* generateCalendar up to its loop
GenerateCalendar ==
    /\ view.kind = "none"
    /\ \E eventDate \in EventDates :
           LET event == newDate(eventDate)
               month == getMonth(event)
               firstDay == firstDayOfMonth(month)
               lastDay == lastDayOfMonth(month)
               startDate == addDays(firstDay, 0 - getDay(firstDay))
           IN view' = [kind |-> "calendar", pc |-> "while", eventDate |-> eventDate,
                       month |-> month, firstDay |-> firstDay, lastDay |-> lastDay,
                       currentDate |-> startDate, days |-> <<>>]
    /\ UNCHANGED <<store, nextId, section, prev, last, inflight>>

\* one iteration: days.push(new Date(currentDate)); currentDate.setDate(+1)
CalendarPush ==
    /\ view.kind = "calendar"
    /\ view.pc = "while"
    /\ whileCondition(view.currentDate, view.lastDay)
    /\ Len(view.days) < MaxDays
    /\ view' = [view EXCEPT !.days = Append(@, view.currentDate),
                            !.currentDate = addDays(@, 1)]
    /\ UNCHANGED <<store, nextId, section, prev, last, inflight>>

\* the loop ends: return { days, eventDay, month, year }
CalendarReturn ==
    /\ view.kind = "calendar"
    /\ view.pc = "while"
    /\ ~whileCondition(view.currentDate, view.lastDay)
    /\ view' = [view EXCEPT !.pc = "return"]
    /\ UNCHANGED <<store, nextId, section, prev, last, inflight>>

NextCalendar == GenerateCalendar \/ CalendarPush \/ CalendarReturn

SpecCalendar == InitCalendar /\ [][NextCalendar]_vars

(***************************************************************************)
(* The budget section: the figures of the budget tracker                   *)
(***************************************************************************)
\* a number: NaN, or an integer
NaN == [nan |-> TRUE, v |-> 0]

Num(v) == [nan |-> FALSE, v |-> v]

\* the texts an amount or a budget holds
NumberTexts == {"5", "12", "", "abc"}

\* Number(x): a numeral is its value, the empty string is 0, any other text
\* and undefined are NaN
Number(x) ==
    CASE x = "5" -> Num(5)
      [] x = "12" -> Num(12)
      [] x = "" -> Num(0)
      [] OTHER -> NaN

\* parseFloat(x): a numeral is its value, anything else is NaN
parseFloat(x) ==
    CASE x = "5" -> Num(5)
      [] x = "12" -> Num(12)
      [] OTHER -> NaN

orZeroMutKeepsNaN(x) == x

\* x || 0: NaN and 0 are falsy
orZero(x) == IF x.nan \/ x.v = 0 THEN Num(0) ELSE x

\* a + b and a - b: NaN when either is NaN
plus(a, b) == IF a.nan \/ b.nan THEN NaN ELSE Num(a.v + b.v)

minus(a, b) == IF a.nan \/ b.nan THEN NaN ELSE Num(a.v - b.v)

\* a < b: false when either is NaN
lessThan(a, b) == ~a.nan /\ ~b.nan /\ a.v < b.v

RECURSIVE usedBudget(_)
\* expenses.reduce((sum, expense) => sum + (Number(expense.amount) || 0), 0)
usedBudget(expenses) ==
    IF expenses = <<>> THEN Num(0)
    ELSE plus(usedBudget(SubSeq(expenses, 1, Len(expenses) - 1)),
              orZero(Number(expenses[Len(expenses)]["amount"])))

\* Number.isFinite(initialBudget) ? initialBudget : 0
safeInitial(initialBudget) == IF initialBudget.nan THEN Num(0) ELSE initialBudget

remainingBudget(expenses, initialBudget) ==
    minus(safeInitial(initialBudget), usedBudget(expenses))

isOverBudget(expenses, initialBudget) ==
    lessThan(remainingBudget(expenses, initialBudget), Num(0))

\* the dashboard shows the budget of the session's user
InitBudget == Init /\ section = "expenses"

\* an expense is added with some amount, or with none
AddExpense ==
    \E amount \in NumberTexts \cup {Absent} :
        LET data == [Object(CurrentUser, "a") EXCEPT !["amount"] = amount]
        IN CommitLocal("create", <<"expenses">>, data,
                       createExpense(store, nextId + 1, data))

\* BudgetSection renders with the expenses listed for the user and the
\* budget of the profile
RenderBudget ==
    /\ \E budget \in NumberTexts :
           LET expenses == listExpenses(store, CurrentUser).val
               initialBudget == parseFloat(budget)
           IN view' = [kind |-> "budget", budget |-> budget, expenses |-> expenses,
                       usedBudget |-> usedBudget(expenses),
                       remainingBudget |-> remainingBudget(expenses, initialBudget),
                       isOverBudget |-> isOverBudget(expenses, initialBudget)]
    /\ UNCHANGED <<store, nextId, section, prev, last, inflight>>

NextBudget == AddExpense \/ RenderBudget

SpecBudget == InitBudget /\ [][NextBudget]_vars

(***************************************************************************)
(* apiRequest calls that overlap: each call is suspended at `await fetch`  *)
(* and, once the Local Store has answered, at `await localApi.<op>(...)`   *)
(***************************************************************************)
\* the calls the tasks section makes
InitConc == Init /\ section = "tasks"

ConcCalls ==
    {[method |-> "POST", path |-> <<"api", "tasks">>, data |-> Object(CurrentUser, "a")]}
    \cup {[method |-> "PUT", path |-> <<"api", "tasks", nanoid(i)>>,
           data |-> Object(Absent, "b")] : i \in 1..MaxIds}
    \cup {[method |-> "DELETE", path |-> <<"api", "tasks", nanoid(i)>>,
           data |-> EmptyObject] : i \in 1..MaxIds}

ConcResponses ==
    {HttpResponse(200, JsonCT, JsonBody(<<RemoteRecord>>)),
     HttpResponse(503, HtmlCT, TextBody("down"))}

\* how many calls the remote has answered so far
Answered == Cardinality({i \in 1..Len(inflight) : inflight[i].pc # "fetch"})

localStorageReadMutAtFetch(now, atFetch) == atFetch

\* the localStorage that readCollection's getItem reads when the Local Store
\* operation runs: the one of that moment, not the one of the time the call
\* was made; the operation has no await between its read and its write
localStorageRead(now, atFetch) == now

\* setItem replaces the items of the keys written and no other
setItems(ls, r) ==
    [k \in LSKeys |-> IF \E i \in 1..Len(r.writes) : r.writes[i] = k THEN r.ls[k]
                      ELSE ls[k]]

\* apiRequest(method, url, data) up to `await fetch(...)`
ApiRequestFetch ==
    /\ Len(inflight) < MaxCalls
    /\ \E c \in ConcCalls :
           inflight' = Append(inflight,
                              [method |-> c.method, path |-> c.path, data |-> c.data,
                               pc |-> "fetch", atFetch |-> store,
                               res |-> FetchRejected, n |-> 0, at |-> 0,
                               kind |-> "pending", val |-> EmptyObject])
    /\ UNCHANGED <<store, nextId, section, prev, last, view>>

\* the remote answers one of the suspended calls: the call runs on, through
\* the Local Store operation if it falls back, to its next await or its return
ApiRequestResume ==
    \E i \in 1..Len(inflight), res \in ConcResponses :
        LET c == inflight[i]
            r == apiRequest(c.method, c.path, c.data, res,
                            localStorageRead(store, c.atFetch), nextId + 1)
        IN /\ c.pc = "fetch"
           /\ nextId + r.ids <= MaxIds
           /\ store' = setItems(store, r)
           /\ nextId' = nextId + r.ids
           /\ inflight' = [inflight EXCEPT ![i] =
                              [c EXCEPT !.pc = IF ok(res) THEN "done" ELSE "await",
                                        !.res = res, !.n = nextId + 1,
                                        !.at = Answered + 1,
                                        !.kind = r.kind, !.val = r.val]]
           /\ UNCHANGED <<section, prev, last, view>>

\* the awaited promise of the Local Store operation (or of res.text()) is
\* settled: the call returns the Response or throws
ApiRequestReturn ==
    /\ \E i \in 1..Len(inflight) :
           /\ inflight[i].pc = "await"
           /\ inflight' = [inflight EXCEPT ![i].pc = "done"]
    /\ UNCHANGED <<store, nextId, section, prev, last, view>>

NextConc == ApiRequestFetch \/ ApiRequestResume \/ ApiRequestReturn

SpecConc == InitConc /\ [][NextConc]_vars

(***************************************************************************)
(* Vocabulary of the properties                                            *)
(***************************************************************************)
OwnedCollections == CollectionName \ {"users"}

\* the routing table of the dispatcher: create for the six collections,
\* update by id for all but inspirations, delete by id for all but users
RoutedWrite(method, path) ==
    /\ Len(path) >= 2
    /\ path[1] = "api"
    /\ \/ method = "POST" /\ Len(path) = 2 /\ path[2] \in CollectionName
       \/ method = "PUT" /\ Len(path) = 3 /\ path[2] \in CollectionName \ {"inspirations"}
       \/ method = "DELETE" /\ Len(path) = 3 /\ path[2] \in OwnedCollections

RoutedList(path) ==
    Len(path) = 4 /\ path[1] = "api" /\ path[2] = "users" /\ path[4] \in OwnedCollections

IsApiCall == last.op = "apiRequest"

IsQueryCall == last.op = "query"

\* the remote answered with an HTTP status outside 200..299
RemoteNonSuccess == last.res.net = "http" /\ ~(last.res.status \in 200..299)

\* the remote answered 2xx with a content type that is not JSON
RemoteSuccessNotJson ==
    /\ last.res.net = "http"
    /\ last.res.status \in 200..299
    /\ last.res.ctype # JsonCT

\* the remote answered 2xx with JSON
RemoteSuccessJson ==
    /\ last.res.net = "http"
    /\ last.res.status \in 200..299
    /\ last.res.ctype = JsonCT

HasId(items, id) == \E i \in 1..Len(items) : items[i]["id"] = id

Contains(items, rec) == \E i \in 1..Len(items) : items[i] = rec

\* the id the call names is in the collection the call names, before the call
TargetPresent == HasId(readCollection(prev, last.path[2]), pop(last.path))

\* the call was answered by a response the Local Store produced
ServedLocally ==
    /\ last.kind = "response"
    /\ last.val # last.res
    /\ last.val.status = 200
    /\ last.val.ctype = JsonCT

\* the caller got the remote failure: status and body text (or status text)
RaisedRemoteFailure ==
    /\ last.kind = "error"
    /\ last.err.name = "Error"
    /\ last.err.status = last.res.status
    /\ last.err.text = (IF last.res.body.fmt = "json" THEN "json-text"
                        ELSE IF last.res.body.val # "" THEN last.res.body.val
                        ELSE IF last.res.status = 401 THEN "Unauthorized"
                        ELSE "Service Unavailable")

SomeRecordStored == \E k \in LSKeys : store[k].items # <<>>

(***************************************************************************)
(* Properties                                                              *)
(***************************************************************************)
\* C1: a routed write (POST, DELETE, or PUT of an id the collection holds)
\* that the remote answers 2xx with a content type other than JSON is
\* answered from the Local Store instead: the caller gets the local
\* response, not the remote one, and the Local Store operation has run.
C1_NonJsonSuccessFallsBack ==
    (/\ IsApiCall
     /\ RemoteSuccessNotJson
     /\ RoutedWrite(last.method, last.path)
     /\ (last.method = "PUT" => TargetPresent))
    => (ServedLocally /\ Len(last.writes) = 1)

\* C2: a list read GET /api/users/{id}/<collection> that the remote answers
\* 200 with an HTML body returns the Local Store's list-by-owner result for
\* that id and collection, not the remote body and not an error.
C2_HtmlListFallsBack ==
    (/\ IsQueryCall
     /\ RemoteSuccessNotJson
     /\ RoutedList(last.path))
    => (/\ last.kind = "value"
        /\ last.val = FilterByOwner(readCollection(prev, last.path[4]), last.path[3]))

C3Case ==
    /\ IsApiCall
    /\ last.method = "POST"
    /\ RemoteNonSuccess
    /\ RoutedWrite(last.method, last.path)

\* C3: a POST to a collection root that the remote answers with a
\* non-success status is answered by the Local Store insert: the returned
\* record carries the identifier just generated and is the last record of
\* the persisted collection, and every later list read of that collection
\* for the record's owner that the Local Store serves contains the record.
C3_PostFallbackInsertsAndLists ==
    C3Case =>
        /\ ServedLocally
        /\ LET c == last.path[2]
               rec == last.val.body.val
               items == readCollection(store, c)
           IN /\ rec["id"] = nanoid(nextId)
              /\ ~HasId(readCollection(prev, c), rec["id"])
              /\ items # <<>>
              /\ items[Len(items)] = rec
              /\ c \in OwnedCollections =>
                    \A r \in Responses :
                        ~ok(r) =>
                            LET q == getQueryFn("throw", <<"api", "users", rec["userId"], c>>,
                                                r, store)
                            IN q.kind = "value" /\ Contains(q.val, rec)

\* C3 witness: a 503 on POST /api/expenses was answered locally while the
\* collection already held a record
C3_Witness ==
    /\ C3Case
    /\ last.res.status = 503
    /\ last.path = <<"api", "expenses">>
    /\ readCollection(prev, "expenses") # <<>>
    /\ ServedLocally

C4Case ==
    /\ IsApiCall
    /\ RemoteNonSuccess
    /\ ~RoutedWrite(last.method, last.path)

\* C4: a call the remote fails and no fallback route matches raises the
\* remote failure (status and body text) to the caller, returns no
\* response, and leaves every Local Store collection as it was.
C4_UnroutedFailureRaised ==
    C4Case =>
        /\ RaisedRemoteFailure
        /\ last.writes = <<>>
        /\ store = prev

\* C4 witness: DELETE /api/users/{id} failed remotely, with an empty body,
\* while the users collection held a record
C4_Witness ==
    /\ C4Case
    /\ last.method = "DELETE"
    /\ last.path[2] = "users"
    /\ last.res.body.val = ""
    /\ readCollection(store, "users") # <<>>
    /\ last.kind = "error"

\* C5: when the remote ends in a non-success status and a fallback route
\* exists, the caller never receives the remote failure as an error,
\* whatever the Local Store holds.
C5_RoutedFailureNeverRaised ==
    (/\ IsApiCall
     /\ RemoteNonSuccess
     /\ RoutedWrite(last.method, last.path))
    => ~RaisedRemoteFailure

\* C6: a fallback update whose id is absent from the collection raises a
\* not-found failure to the caller, distinct from the remote failure.
C6_AbsentIdRaisesNotFound ==
    (/\ IsApiCall
     /\ last.method = "PUT"
     /\ RemoteNonSuccess
     /\ RoutedWrite(last.method, last.path)
     /\ ~TargetPresent)
    => (/\ last.kind = "error"
        /\ last.err.status = 0
        /\ last.err.text \in {"User not found", "Expense not found", "Vendor not found",
                              "Guest not found", "Task not found"})

\* C7: a call whose fetch rejects (network error, timeout) is handled like
\* a non-success status: a routed operation runs against the Local Store
\* and its result is returned.
C7_NetworkErrorFallsBack ==
    LET RejectedWrite ==
            /\ IsApiCall
            /\ last.res.net = "reject"
            /\ RoutedWrite(last.method, last.path)
            /\ (last.method = "PUT" => TargetPresent)
        RejectedList ==
            /\ IsQueryCall
            /\ last.res.net = "reject"
            /\ RoutedList(last.path)
    IN /\ RejectedWrite => (ServedLocally /\ Len(last.writes) = 1)
       /\ RejectedList =>
            /\ last.kind = "value"
            /\ last.val = FilterByOwner(readCollection(prev, last.path[4]), last.path[3])

C8Case == (IsApiCall \/ IsQueryCall) /\ RemoteSuccessJson

\* C8: when the remote outcome does not qualify for fallback (2xx with
\* JSON), apiRequest returns the remote response itself and the list query
\* returns the parsed remote body, and no collection is written.
C8_RemoteSuccessReturnedUnchanged ==
    C8Case =>
        /\ IsApiCall => (last.kind = "response" /\ last.val = last.res)
        /\ IsQueryCall => (last.kind = "value" /\ last.val = <<RemoteRecord>>)
        /\ last.writes = <<>>
        /\ store = prev

\* C8 witness: a routed POST got 200 with JSON while the Local Store held
\* records, and the remote response came back
C8_Witness ==
    /\ C8Case
    /\ IsApiCall
    /\ last.method = "POST"
    /\ RoutedWrite(last.method, last.path)
    /\ SomeRecordStored
    /\ last.kind = "response"

\* C9: every fallback-qualifying write that matches a route performs
\* exactly one persistence write, to the key of the collection it names;
\* list reads perform none.
C9_OneWritePerQualifyingWrite ==
    LET QualifyingWrite ==
            /\ IsApiCall
            /\ (RemoteNonSuccess \/ RemoteSuccessNotJson)
            /\ RoutedWrite(last.method, last.path)
    IN /\ QualifyingWrite => last.writes = <<getKey(last.path[2])>>
       /\ IsQueryCall => (last.writes = <<>> /\ store = prev)

C10Case ==
    /\ IsApiCall
    /\ last.method = "PUT"
    /\ RemoteNonSuccess
    /\ RoutedWrite(last.method, last.path)
    /\ TargetPresent

\* C10: an update of an id the collection holds gives every field of the
\* partial its supplied value, keeps every field the partial lacks, and
\* leaves id and userId as they were even when the partial carries them.
C10_UpdateMergesAndProtectsKeys ==
    C10Case =>
        LET items == readCollection(prev, last.path[2])
            old == items[findIndexById(items, pop(last.path))]
            new == readCollection(store, last.path[2])[findIndexById(items, pop(last.path))]
        IN /\ \A f \in Fields \ {"id", "userId"} :
                new[f] = (IF last.data[f] # Absent THEN last.data[f] ELSE old[f])
           /\ new["id"] = old["id"]
           /\ new["userId"] = old["userId"]
           /\ last.val.body.val = new


(***************************************************************************)
(* Properties of the Local Store called directly                           *)
(***************************************************************************)
IsLocalCall(method) == last.op = "localApi" /\ last.method = method

\* the collection the last direct call worked on, before and after it
ItemsBefore == readCollection(prev, last.path[1])

ItemsAfter == readCollection(store, last.path[1])

NotFoundText(name) ==
    CASE name = "users" -> "User not found"
      [] name = "expenses" -> "Expense not found"
      [] name = "vendors" -> "Vendor not found"
      [] name = "guests" -> "Guest not found"
      [] name = "tasks" -> "Task not found"

DistinctIds(items) ==
    \A i, j \in 1..Len(items) : i # j => items[i]["id"] # items[j]["id"]

\* C11: in every state reached by inserts, updates and deletes, the ids of
\* the records of each collection are pairwise distinct and every record has
\* an id.
C11_IdsPairwiseDistinct ==
    \A name \in CollectionName :
        LET items == readCollection(store, name)
        IN /\ DistinctIds(items)
           /\ \A i \in 1..Len(items) : items[i]["id"] # Absent

C12Case == IsLocalCall("update") /\ ~HasId(ItemsBefore, last.path[2])

\* C12: an update whose id is not in the collection fails with the
\* collection's not-found error and leaves localStorage exactly as it was.
C12_AbsentIdUpdateFailsAndKeepsStore ==
    C12Case =>
        /\ last.kind = "error"
        /\ last.err = LocalError(NotFoundText(last.path[1]))
        /\ last.writes = <<>>
        /\ store = prev

\* an update of an absent id on a collection that holds another record
C12_Witness == C12Case /\ last.kind = "error" /\ ItemsBefore # <<>>

C13Case == IsLocalCall("delete")

\* C13: after delete(id) no list-by-owner result of any owner holds a record
\* with that id; a delete of an id that is not (or no longer) there raises
\* no error and leaves the records unchanged, and so does the same delete
\* called a second time.
C13_DeleteRemovesAndIsIdempotent ==
    C13Case =>
        LET name == last.path[1]
            id == last.path[2]
            again == deleteIn(name, store, id)
        IN /\ last.kind = "value"
           /\ \A u \in UserIds : ~HasId(listIn(name, store, u).val, id)
           /\ ~HasId(ItemsAfter, id)
           /\ \A i \in 1..Len(ItemsBefore) :
                  ItemsBefore[i]["id"] # id => Contains(ItemsAfter, ItemsBefore[i])
           /\ (~HasId(ItemsBefore, id) => ItemsAfter = ItemsBefore)
           /\ ~again.thrown
           /\ again.ls = store

\* a delete that removed a record and kept another one
C13_Witness ==
    /\ C13Case
    /\ HasId(ItemsBefore, last.path[2])
    /\ ItemsAfter # <<>>

\* the storage positions of the records of one owner
OwnedAt(items, u) == {i \in 1..Len(items) : items[i]["userId"] = u}

\* the storage position of the k-th record of one owner
KthOwnedAt(items, u, k) ==
    CHOOSE i \in OwnedAt(items, u) :
        Cardinality({j \in OwnedAt(items, u) : j <= i}) = k

C14Case == IsLocalCall("list") /\ last.kind = "value"

\* C14: list-by-owner returns exactly the records whose userId is the owner
\* asked for, each once, in storage order.
C14_ListIsOwnersSubsequence ==
    IsLocalCall("list") =>
        LET u == last.path[2]
        IN /\ last.kind = "value"
           /\ Len(last.val) = Cardinality(OwnedAt(ItemsBefore, u))
           /\ \A k \in 1..Len(last.val) :
                  last.val[k] = ItemsBefore[KthOwnedAt(ItemsBefore, u, k)]
           /\ store = prev

\* a list that returned some records of a collection and left others out
C14_Witness ==
    /\ C14Case
    /\ Len(last.val) >= 1
    /\ Len(ItemsBefore) > Len(last.val)

\* the fields an insert stamps besides the id
StampOf(name) ==
    CASE name = "users" -> "createdAt"
      [] name = "expenses" -> "date"
      [] OTHER -> "id"

\* the record the last insert returned, then updated in two fields and
\* listed by its owner
RoundTrip ==
    LET name == last.path[1]
        updated == updateIn(name, store, last.val["id"], TwoFieldUpdate)
        listed == listIn(name, updated.ls, last.val["userId"])
    IN [inserted |-> last.val, thrown |-> updated.thrown \/ listed.thrown,
        listed |-> listed.val]

C15Case ==
    /\ IsLocalCall("create")
    /\ last.kind = "value"
    /\ last.path[1] \in OwnedCollections \ {"inspirations"}

\* C15: a record inserted, updated in two fields and listed by its owner is
\* read back equal to the inserted record except for exactly those two
\* fields.
C15_RoundTripKeepsOtherFields ==
    C15Case =>
        /\ ~RoundTrip.thrown
        /\ \E i \in 1..Len(RoundTrip.listed) :
               /\ RoundTrip.listed[i]["id"] = RoundTrip.inserted["id"]
               /\ \A f \in Fields :
                      RoundTrip.listed[i][f] = (IF TwoFieldUpdate[f] # Absent
                                                THEN TwoFieldUpdate[f]
                                                ELSE RoundTrip.inserted[f])

C17Case == IsLocalCall("create")

\* C17: an insert always succeeds; it appends exactly one record, the payload
\* with the generated id (and createdAt for profiles, date for expenses),
\* after the prior records, which keep their values and order; the whole
\* collection is persisted and the record is returned; an id supplied in the
\* payload is replaced by the generated one.
C17_InsertAppendsOneRecord ==
    C17Case =>
        LET name == last.path[1]
        IN /\ last.kind = "value"
           /\ last.val["id"] = nanoid(nextId)
           /\ ~HasId(ItemsBefore, last.val["id"])
           /\ (last.data["id"] # Absent => last.val["id"] # last.data["id"])
           /\ \A f \in Fields \ {"id", StampOf(name)} : last.val[f] = last.data[f]
           /\ (StampOf(name) # "id" => last.val[StampOf(name)] = DateNow)
           /\ ItemsAfter = Append(ItemsBefore, JsonObject(last.val))
           /\ store = writeCollection(prev, name, ItemsAfter)
           /\ last.writes = <<getKey(name)>>

\* an insert of a payload that carried its own id, into a collection that
\* already held a record
C17_Witness ==
    /\ C17Case
    /\ last.data["id"] # Absent
    /\ ItemsBefore # <<>>
    /\ Len(ItemsAfter) = Len(ItemsBefore) + 1

\* the profile ids the client has seen: the session's user and the stored
\* profiles
KnownProfiles ==
    {CurrentUser}
    \cup {readCollection(store, "users")[i]["id"] :
            i \in 1..Len(readCollection(store, "users"))}

\* C18: the userId of every expense, vendor, guest, task and inspiration
\* record names a profile that exists or has been seen.
C18_OwnersAreKnownProfiles ==
    \A name \in OwnedCollections :
        \A i \in 1..Len(readCollection(store, name)) :
            readCollection(store, name)[i]["userId"] \in KnownProfiles

C16Case ==
    /\ last.op = "localApi"
    /\ prev[getKey(last.path[1])].tag # "array"

\* C16: on a collection whose item is missing, does not parse or parses to
\* something that is no sequence of records, every operation behaves as on an
\* empty collection: a list returns nothing, an insert stores its record
\* alone, a delete leaves no record, an update and getUser report not-found;
\* no other error reaches the caller.
C16_ForeignBlobReadsAsEmpty ==
    C16Case =>
        /\ (last.method \in {"create", "delete", "list"} => last.kind = "value")
        /\ (last.method = "list" => last.val = <<>> /\ store = prev)
        /\ (last.method = "create" => ItemsAfter = <<JsonObject(last.val)>>)
        /\ (last.method = "delete" => store[getKey(last.path[1])] = ArrayBlob(<<>>))
        /\ (last.method \in {"update", "get"} =>
                /\ last.kind = "error"
                /\ last.err = LocalError(NotFoundText(last.path[1]))
                /\ store = prev)

(***************************************************************************)
(* Properties of the two sources together                                  *)
(***************************************************************************)
\* a list read of an owner's collection that returned a list to its caller
C20Case == IsQueryCall /\ RoutedList(last.path) /\ last.kind = "value"

\* the records the Local Store holds for the owner the last list read names;
\* in this specification they are there by fallback writes only
LocallyWritten == FilterByOwner(readCollection(store, last.path[4]), last.path[3])

\* C20 as stated: after writes served by the Local Store, every later list
\* read of the owner's collection contains the records those writes left,
\* whether the remote or the Local Store served the read.
C20_EveryLaterListReflectsLocalWrites ==
    C20Case =>
        \A i \in 1..Len(LocallyWritten) : Contains(last.val, LocallyWritten[i])

\* C20 amended: a list read that the Local Store serves returns exactly the
\* records the Local Store holds for the owner, hence what the fallback
\* writes left; a list read that the remote serves returns the remote's
\* list, whatever was written locally. No read changes localStorage.
C20_ListsReflectTheirOwnSource ==
    C20Case =>
        /\ store = prev
        /\ IF ok(last.res) THEN last.val = last.res.body.val
           ELSE last.val = LocallyWritten

\* the remote failed and the Local Store served a list that holds a record
\* written by fallback
C20_Witness ==
    /\ C20Case
    /\ LocallyWritten # <<>>
    /\ ~ok(last.res)
    /\ last.val = LocallyWritten

(***************************************************************************)
(* Properties of overlapping calls                                         *)
(***************************************************************************)
\* the call that was the k-th to be answered
CallAt(k) ==
    inflight[CHOOSE i \in 1..Len(inflight) :
                 inflight[i].pc # "fetch" /\ inflight[i].at = k]

\* localStorage after the first k answered calls, had each call run from its
\* start to its end alone, one after the other in the order of the answers
RECURSIVE OneAfterTheOther(_)
OneAfterTheOther(k) ==
    IF k = 0 THEN [key \in LSKeys |-> MissingBlob]
    ELSE LET c == CallAt(k)
         IN apiRequest(c.method, c.path, c.data, c.res, OneAfterTheOther(k - 1), c.n).ls

\* the call was answered by the Local Store
FellBack(c) == c.pc # "fetch" /\ c.kind = "response" /\ c.val # c.res

\* a DELETE of the id that fell back after the k-th answer
DeletedAfter(id, k) ==
    \E j \in 1..Len(inflight) :
        /\ FellBack(inflight[j])
        /\ inflight[j].method = "DELETE"
        /\ pop(inflight[j].path) = id
        /\ inflight[j].at > k

\* C19: whatever the order in which overlapping apiRequest calls are
\* answered, localStorage is what the calls leave when run one after the
\* other in that order, and no fallback write is lost: the record of every
\* POST that fell back is in the collection unless a later DELETE that fell
\* back removed it, and a record a PUT that fell back has updated carries the
\* update for as long as it is there.
C19_NoLostUpdate ==
    /\ store = OneAfterTheOther(Answered)
    /\ \A i \in 1..Len(inflight) :
           LET c == inflight[i]
               tasks == readCollection(store, "tasks")
           IN FellBack(c) =>
                 /\ (c.method = "POST" =>
                        \/ Contains(tasks, c.val.body.val)
                        \/ \E j \in 1..Len(tasks) :
                               /\ tasks[j]["id"] = c.val.body.val["id"]
                               /\ tasks[j] = Spread(c.val.body.val, Object(Absent, "b"))
                        \/ DeletedAfter(c.val.body.val["id"], c.at))
                 /\ (c.method = "PUT" =>
                        \A j \in 1..Len(tasks) :
                            tasks[j]["id"] = pop(c.path) => tasks[j]["name"] = "b")

\* two POSTs made before either was answered have both fallen back, and
\* both records are in the collection
C19_Witness ==
    /\ Len(inflight) >= 2
    /\ \A i \in 1..2 :
           /\ inflight[i].method = "POST"
           /\ inflight[i].atFetch = [key \in LSKeys |-> MissingBlob]
           /\ FellBack(inflight[i])
    /\ Len(readCollection(store, "tasks")) = 2

(***************************************************************************)
(* Properties of the client in front of the remote server                  *)
(***************************************************************************)
\* the collection an apiRequest call names, before and after the call
ApiItemsBefore == readCollection(prev, last.path[2])

ApiItemsAfter == readCollection(store, last.path[2])

C21Case ==
    /\ IsApiCall
    /\ last.method = "DELETE"
    /\ RoutedWrite(last.method, last.path)
    /\ last.res.net = "http"

\* C21: a DELETE of any id in expenses, vendors, guests, tasks or
\* inspirations returns a success response to its caller whatever HTTP
\* status the remote answers, the 404 for an id it does not know included,
\* and whether or not the Local Store holds the id.
C21_DeleteSucceedsForAnyStatus ==
    C21Case =>
        /\ last.kind = "response"
        /\ last.val.status \in 200..299

\* the remote answered 404 and the Local Store did not hold the id either
C21_Witness ==
    /\ C21Case
    /\ last.res.status = 404
    /\ ~HasId(ApiItemsBefore, pop(last.path))
    /\ ApiItemsBefore # <<>>
    /\ last.kind = "response"

\* a response handed to the caller although the remote did not succeed
C22Case ==
    /\ IsApiCall
    /\ last.res.net = "http"
    /\ ~(last.res.status \in 200..299)
    /\ last.kind = "response"

\* C22: a response the fallback produces has status 200, the JSON content
\* type and a JSON body, as a successful answer of the remote has; for a
\* create the body is the record appended to the collection, for an update
\* the record at the position of the id the call names.
C22_FallbackResponseIsNormalized ==
    C22Case =>
        /\ last.val.status = 200
        /\ last.val.ctype = JsonCT
        /\ last.val.body.fmt = "json"
        /\ (last.method = "POST" =>
                last.val.body.val = ApiItemsAfter[Len(ApiItemsAfter)])
        /\ (last.method = "PUT" =>
                last.val.body.val =
                    ApiItemsAfter[findIndexById(ApiItemsBefore, pop(last.path))])

\* an update answered by the fallback after the remote's 404
C22_Witness ==
    /\ C22Case
    /\ last.method = "PUT"
    /\ last.res.status = 404
    /\ Len(ApiItemsAfter) >= 2

C24Case ==
    /\ IsApiCall
    /\ last.method = "POST"
    /\ RoutedWrite(last.method, last.path)
    /\ last.res.net = "http"
    /\ last.res.status \in 400..499

\* C24: a POST the remote rejects with a client-error status is inserted
\* into the Local Store as given, with a generated id and the stamp of its
\* collection, and answered with a success response.
C24_RejectedPostIsStoredLocally ==
    C24Case =>
        /\ last.kind = "response"
        /\ last.val.status = 200
        /\ last.val # last.res
        /\ LET rec == last.val.body.val
           IN /\ ApiItemsAfter = Append(ApiItemsBefore, rec)
              /\ rec["id"] = nanoid(nextId)
              /\ \A f \in Fields \ {"id", "createdAt", "date"} : rec[f] = last.data[f]

\* a payload the insert schema rejects became a local record
C24_Witness ==
    /\ C24Case
    /\ last.res.status = 400
    /\ ~insertSchemaAccepts(last.path[2], last.data)
    /\ ApiItemsAfter # <<>>
    /\ ApiItemsAfter[Len(ApiItemsAfter)]["name"] = Absent

\* C25: every call for which the client has a fallback route is served by
\* a route of the remote server, PUT /api/expenses/{id} included.
C25_FallbackRoutesHaveServerRoutes ==
    (IsApiCall /\ RoutedWrite(last.method, last.path)) =>
        /\ hasServerRoute(last.method, last.path)
        /\ last.res # CannotRoute

(***************************************************************************)
(* Further properties of the Local Store and of the list query function    *)
(***************************************************************************)
C23Case == IsLocalCall("update") /\ last.kind = "value"

\* the position of the record the last update names
UpdatedAt == findIndexById(ItemsBefore, last.path[2])

\* C23: an update of an existing record keeps the length of the collection
\* and every record at its position, the updated one included; when it does
\* not change the userId, every owner's records are at the same positions
\* and in the same order as before.
C23_UpdateKeepsPositions ==
    C23Case =>
        /\ Len(ItemsAfter) = Len(ItemsBefore)
        /\ \A i \in 1..Len(ItemsBefore) :
               i # UpdatedAt => ItemsAfter[i] = ItemsBefore[i]
        /\ ItemsAfter[UpdatedAt] = Spread(ItemsBefore[UpdatedAt], last.data)
        /\ (ItemsAfter[UpdatedAt]["userId"] = ItemsBefore[UpdatedAt]["userId"] =>
               \A u \in UserIds :
                   /\ OwnedAt(ItemsAfter, u) = OwnedAt(ItemsBefore, u)
                   /\ \A k \in 1..Cardinality(OwnedAt(ItemsBefore, u)) :
                          KthOwnedAt(ItemsAfter, u, k) = KthOwnedAt(ItemsBefore, u, k))

\* the first of two records was updated without a change of its owner
C23_Witness ==
    /\ C23Case
    /\ Len(ItemsBefore) >= 2
    /\ UpdatedAt = 1
    /\ ItemsAfter[1] # ItemsBefore[1]
    /\ ItemsAfter[1]["userId"] = ItemsBefore[1]["userId"]

C27Case == IsQueryCall /\ last.res.net = "http" /\ last.res.status = 401

\* C27: on a 401 the list query function with on401 = "returnNull" returns
\* null and leaves the Local Store alone; with on401 = "throw" the 401 is a
\* non-success status like any other: a list path is answered by the Local
\* Store list-by-owner, any other path raises the remote failure.
C27_UnauthorizedBehavior ==
    C27Case =>
        IF last.on401 = "returnNull"
        THEN last.kind = "null" /\ store = prev /\ last.writes = <<>>
        ELSE IF RoutedList(last.path)
             THEN /\ last.kind = "value"
                  /\ last.val = FilterByOwner(readCollection(prev, last.path[4]),
                                              last.path[3])
             ELSE RaisedRemoteFailure

\* null was returned although the Local Store held records of the owner
C27_Witness ==
    /\ C27Case
    /\ last.on401 = "returnNull"
    /\ RoutedList(last.path)
    /\ FilterByOwner(readCollection(store, last.path[4]), last.path[3]) # <<>>
    /\ last.kind = "null"

(***************************************************************************)
(* Properties of the session's user                                        *)
(***************************************************************************)
\* the profile was skipped: the session's user is the one handleSkip made up
SkippedBefore == hasStoredUser(prev) /\ getStoredUser(prev)["id"] = LocalSkipId

C28Case ==
    /\ last.op = "onSubmit"
    /\ last.method = "PUT"
    /\ SkippedBefore
    /\ RemoteNonSuccess

\* C28: handleSkip writes the session's user and nothing else: it makes no
\* request and leaves every collection as it was; a later PUT of that
\* profile that the remote answers with a non-success status raises the
\* remote failure and changes neither the session's user nor the users
\* collection.
C28_SkippedProfileIsSessionOnly ==
    /\ (last.op = "handleSkip" =>
            /\ last.method = ""
            /\ last.writes = <<USER_STORAGE_KEY>>
            /\ getStoredUser(store)["id"] = LocalSkipId
            /\ \A k \in LSKeys \ {USER_STORAGE_KEY} : store[k] = prev[k])
    /\ (C28Case =>
            /\ RaisedRemoteFailure
            /\ store = prev)

\* the edit of a skipped profile was answered 404 by the remote
C28_Witness ==
    /\ C28Case
    /\ last.res.status = 404
    /\ last.path = <<"api", "users", LocalSkipId>>
    /\ last.kind = "error"

\* C29: a Local Store operation on one collection leaves the items of the
\* other five collections and the session's user as they were; an update of
\* a profile leaves the records that profile owns untouched.
C29_OtherKeysUnchanged ==
    last.op = "localApi" =>
        \A k \in LSKeys \ {getKey(last.path[1])} : store[k] = prev[k]

\* a profile was updated while the other collections held records it owns
\* and the session's user was stored
C29_Witness ==
    /\ IsLocalCall("update")
    /\ last.path = <<"users", ForeignId>>
    /\ last.kind = "value"
    /\ store[getKey("users")] # prev[getKey("users")]
    /\ hasStoredUser(store)
    /\ \A c \in OwnedCollections :
           /\ readCollection(store, c) # <<>>
           /\ readCollection(store, c)[1]["userId"] = ForeignId

(***************************************************************************)
(* Properties of the dashboard's computations                              *)
(***************************************************************************)
\* the days of the event's month
DaysOfMonth ==
    {view.firstDay.day + k : k \in 0..(MonthLength[view.month + 1] - 1)}

\* C26: generateCalendar terminates for every eventDate: its loop is over
\* before a 43rd day is pushed (six weeks hold any month), and what it
\* returns is a run of consecutive days that starts on a Sunday, has a
\* length that is a multiple of 7 and holds every day of the event's month.
C26_CalendarTerminatesWithWholeWeeks ==
    view.kind = "calendar" =>
        /\ Len(view.days) <= 42
        /\ (view.pc = "return" =>
               /\ view.days # <<>>
               /\ \A i \in 1..Len(view.days) :
                      /\ ~view.days[i].nan
                      /\ view.days[i].day = view.days[1].day + i - 1
               /\ view.days[1].day % 7 = 0
               /\ Len(view.days) % 7 = 0
               /\ \A d \in DaysOfMonth :
                      \E i \in 1..Len(view.days) : view.days[i].day = d)

\* the value an amount counts for: its number, 0 when it is not numeric
Counted(amount) ==
    CASE amount = "5" -> 5
      [] amount = "12" -> 12
      [] OTHER -> 0

RECURSIVE SumCounted(_)
SumCounted(expenses) ==
    IF expenses = <<>> THEN 0
    ELSE Counted(expenses[1]["amount"]) + SumCounted(Tail(expenses))

\* the budget the figures are measured against: 0 when it is no finite number
BudgetCounted(budget) == Counted(budget)

\* C30: used budget is the sum of the numeric amounts of the listed
\* expenses, a non-numeric amount counting 0; remaining budget is the
\* initial budget (0 when it is no finite number) minus used budget; the
\* over-budget flag is set exactly when used budget exceeds that budget.
C30_BudgetFigures ==
    view.kind = "budget" =>
        /\ ~view.usedBudget.nan
        /\ view.usedBudget.v = SumCounted(view.expenses)
        /\ ~view.remainingBudget.nan
        /\ view.remainingBudget.v = BudgetCounted(view.budget) - SumCounted(view.expenses)
        /\ view.isOverBudget = (SumCounted(view.expenses) > BudgetCounted(view.budget))

\* over budget with an amount that is no number among the expenses
C30_Witness ==
    /\ view.kind = "budget"
    /\ Len(view.expenses) >= 2
    /\ \E i \in 1..Len(view.expenses) : view.expenses[i]["amount"] = "abc"
    /\ view.budget = "5"
    /\ view.isOverBudget

====
